---- MODULE Spec2Model ----
(***************************************************************************)
(* PurposePay voucher lifecycle and funds-transfer engine.                 *)
(*                                                                         *)
(* The model follows the request handlers of voucher/views.py and the      *)
(* serializers of voucher/serializers.py.  Every handler is split at the   *)
(* points where it touches the database outside a transaction, so that     *)
(* concurrent requests interleave exactly where the code lets them; the    *)
(* body of a transaction.atomic() block that holds its row locks is one    *)
(* step.  Money is counted in GHS, time in days.                           *)
(***************************************************************************)
EXTENDS Integers, Sequences, FiniteSets, TLC

(* ---------------- bounds of the model ---------------- *)
MaxRows == 3
MaxWallet == 100
MaxTicks == 1
MaxFinance == 100
DaysPerTick == 31

(* ---------------- program constants ---------------- *)
MinVoucherAmount == 100
MinRedemptionAmount == 50
MinPayoutAmount == 50
ExpiryDays == 30

\* the request handlers that run concurrently
Procs == {"h1", "h2"}
Customers == {"c1", "c2"}
\* the customers who fund their wallet; the others own nothing
Depositors == {"c1"}
Vendors == {"v1", "v2", "v3"}

\* the category each approved vendor registered with (VendorProfile.category)
VendorCategory(v) == IF v = "v3" THEN "SCHOOL" ELSE "PHARMACY"

(* inputs the clients send *)
DepositAmounts == {0, 100}
VoucherAmounts == {50, 100}
VoucherCategories == {"PHARMACY"}
RedeemAmounts == {25, 50, 100, 150}
VoucherCodes == 1..MaxRows
RedemptionIds == 1..MaxRows

VARIABLES wallet, vouchers, redemptions, finance, now, procs

vars == <<wallet, vouchers, redemptions, finance, now, procs>>

(* ---------------- status values ---------------- *)
PENDING_PAYMENT == "PENDING_PAYMENT"
ACTIVE == "ACTIVE"
LOCKED == "LOCKED"
EXPIRED == "EXPIRED"
VoucherStatuses == {PENDING_PAYMENT, ACTIVE, LOCKED, EXPIRED}

PENDING == "PENDING"
REDEEMED == "REDEEMED"
CANCELLED == "CANCELLED"
RedemptionStatuses == {PENDING, REDEEMED, CANCELLED}

\* Voucher.PENDING, the status VoucherCreateSerializer.create and the activation
\* view name: the payment-pending status of the voucher state machine
VoucherPending == PENDING_PAYMENT

\* the value a new voucher row takes for escrow_balance
EscrowDefault == 0

Idle == [pc |-> "idle", user |-> "none", vid |-> 0, rid |-> 0, amount |-> 0]

VoucherIds == 1..Len(vouchers)
RedemptionRows == 1..Len(redemptions)

\* voucher.expiry_date and voucher.expiry_date < timezone.now()
IsExpired(v, t) == v.expiry_date < t

default_expiry(t) == t + ExpiryDays

Init ==
    /\ wallet = [c \in Customers |-> 0]
    /\ vouchers = <<>>
    /\ redemptions = <<>>
    /\ finance = [v \in Vendors |-> 0]
    /\ now = 0
    /\ procs = [p \in Procs |-> Idle]

(* ---------------- time ---------------- *)
Tick ==
    /\ now + DaysPerTick <= MaxTicks * DaysPerTick
    /\ now' = now + DaysPerTick
    /\ UNCHANGED <<wallet, vouchers, redemptions, finance, procs>>

(* ---------------- wallet ---------------- *)
\* WalletDepositSerializer.validate_amount + deposit
Deposit(c, a) ==
    /\ wallet[c] + a <= MaxWallet
    /\ IF a <= 0
       THEN UNCHANGED wallet
       ELSE wallet' = [wallet EXCEPT ![c] = @ + a]
    /\ UNCHANGED <<vouchers, redemptions, finance, now, procs>>

\* requests that passed validate and have not yet inserted their row
CreatesInFlight == Cardinality({p \in Procs : procs[p].pc = "request_create"})

(* ---------------- voucher creation ---------------- *)
\* NewVoucher without the remaining_balance that Voucher.save sets
NewVoucherBalanceUnset(c, cat, a, t) ==
    [customer |-> c, category |-> cat, initial_amount |-> a,
     remaining_balance |-> 0, escrow_balance |-> EscrowDefault,
     status |-> VoucherPending, expiry_date |-> default_expiry(t)]

\* Voucher.objects.create(customer, status, **validated_data) and Voucher.save
NewVoucher(c, cat, a, t) ==
    [customer |-> c, category |-> cat, initial_amount |-> a,
     remaining_balance |-> a, escrow_balance |-> EscrowDefault,
     status |-> VoucherPending, expiry_date |-> default_expiry(t)]

\* CreateOutcome without its balance check
CreateOutcomeNoFundsCheck(c, a) ==
    IF a < MinVoucherAmount THEN "InvalidAmount"
    ELSE "ok"

\* the checks of VoucherCreateSerializer.validate_initial_amount and create
CreateOutcome(c, a) ==
    IF a < MinVoucherAmount THEN "InvalidAmount"
    ELSE IF wallet[c] < a THEN "InsufficientFunds"
    ELSE "ok"

\* VoucherCreate without the wallet debit
VoucherCreateNoDebit(c, cat, a) ==
    /\ Len(vouchers) + Len(redemptions) + CreatesInFlight < MaxRows
    /\ IF CreateOutcome(c, a) = "ok"
       THEN /\ UNCHANGED wallet
            /\ vouchers' = Append(vouchers, NewVoucher(c, cat, a, now))
       ELSE UNCHANGED <<wallet, vouchers>>
    /\ UNCHANGED <<redemptions, finance, now, procs>>

\* VoucherCreateSerializer.create: the wallet debit and the voucher insert are
\* one transaction under the wallet's row lock
VoucherCreate(c, cat, a) ==
    /\ Len(vouchers) + Len(redemptions) + CreatesInFlight < MaxRows
    /\ IF CreateOutcome(c, a) = "ok"
       THEN /\ wallet' = [wallet EXCEPT ![c] = @ - a]
            /\ vouchers' = Append(vouchers, NewVoucher(c, cat, a, now))
       ELSE UNCHANGED <<wallet, vouchers>>
    /\ UNCHANGED <<redemptions, finance, now, procs>>

(* ---------------- helpers on process records ---------------- *)
Start(p, pc, user, vid, rid, amount) ==
    procs' = [procs EXCEPT ![p] =
                [pc |-> pc, user |-> user, vid |-> vid, rid |-> rid, amount |-> amount]]

\* the handler returns the response outcome names and takes the next request
Finish(p, outcome) == procs' = [procs EXCEPT ![p] = Idle]

(* ---------------- voucher activation ---------------- *)
\* ActivateOutcome with the voucher fetched by id alone
ActivateOutcomeNoOwnerCheck(c, vid) ==
    IF vid \notin VoucherIds THEN "NotFound"
    ELSE IF vouchers[vid].status # VoucherPending THEN "InvalidState"
    ELSE "ok"

\* VoucherActivateSimulationView.post up to the status check: the voucher is
\* fetched by id and owner, then its fetched status is tested.
ActivateOutcome(c, vid) ==
    IF ~(vid \in VoucherIds /\ vouchers[vid].customer = c) THEN "NotFound"
    ELSE IF vouchers[vid].status # VoucherPending THEN "InvalidState"
    ELSE "ok"

ActivateFetch(p, c, vid) ==
    /\ procs[p].pc = "idle"
    /\ IF ActivateOutcome(c, vid) = "ok"
       THEN Start(p, "activate_save", c, vid, 0, 0)
       ELSE Finish(p, ActivateOutcome(c, vid))
    /\ UNCHANGED <<wallet, vouchers, redemptions, finance, now>>

\* voucher.status = ACTIVE; voucher.save(update_fields=['status'])
ActivateSave(p) ==
    /\ procs[p].pc = "activate_save"
    /\ vouchers' = [vouchers EXCEPT ![procs[p].vid].status = ACTIVE]
    /\ Finish(p, "ok")
    /\ UNCHANGED <<wallet, redemptions, finance, now>>

(* ---------------- redemption request ---------------- *)
\* the amount check of VoucherRedemptionCreateSerializer.validate
ExceedsBalance(v, amount) == amount > v.remaining_balance

\* RequestOutcome without its category check
RequestOutcomeNoCategoryCheck(vendor, code, amount, t) ==
    IF code \notin VoucherIds THEN "NotFound"
    ELSE IF vouchers[code].status # ACTIVE THEN "VoucherNotActive"
    ELSE IF IsExpired(vouchers[code], t) THEN "VoucherExpired"
    ELSE IF amount < MinRedemptionAmount THEN "AmountTooLow"
    ELSE IF ExceedsBalance(vouchers[code], amount) THEN "AmountExceedsBalance"
    ELSE "ok"

\* VoucherRedemptionCreateSerializer.validate, in the order of its checks
RequestOutcome(vendor, code, amount, t) ==
    IF code \notin VoucherIds THEN "NotFound"
    ELSE IF vouchers[code].status # ACTIVE THEN "VoucherNotActive"
    ELSE IF IsExpired(vouchers[code], t) THEN "VoucherExpired"
    ELSE IF amount < MinRedemptionAmount THEN "AmountTooLow"
    ELSE IF ExceedsBalance(vouchers[code], amount) THEN "AmountExceedsBalance"
    ELSE IF vouchers[code].category # VendorCategory(vendor) THEN "CategoryMismatch"
    ELSE "ok"

RequestValidate(p, vendor, code, amount) ==
    /\ procs[p].pc = "idle"
    /\ Len(vouchers) + Len(redemptions) + CreatesInFlight < MaxRows
    /\ IF RequestOutcome(vendor, code, amount, now) = "ok"
       THEN Start(p, "request_create", vendor, code, 0, amount)
       ELSE Finish(p, RequestOutcome(vendor, code, amount, now))
    /\ UNCHANGED <<wallet, vouchers, redemptions, finance, now>>

NewRedemption(vid, vendor, amount) ==
    [voucher |-> vid, vendor |-> vendor, redeemed_amount |-> amount,
     redemption_status |-> PENDING]

\* the voucher row as VoucherRedemptionCreateSerializer.create leaves it
ReservedVoucher(v, amount) == v

\* VoucherRedemptionCreateSerializer.create
RequestCreate(p) ==
    /\ procs[p].pc = "request_create"
    /\ redemptions' = Append(redemptions,
                             NewRedemption(procs[p].vid, procs[p].user, procs[p].amount))
    /\ vouchers' = [vouchers EXCEPT
                      ![procs[p].vid] = ReservedVoucher(@, procs[p].amount)]
    /\ Finish(p, "ok")
    /\ UNCHANGED <<wallet, finance, now>>

(* ---------------- lookup shared by cancel and confirm ---------------- *)
\* get_queryset of VoucherRedemptionCancelView and VoucherRedemptionConfirmView:
\* the caller's own vouchers' redemptions that are PENDING
InQueryset(c, rid) ==
    /\ rid \in RedemptionRows
    /\ vouchers[redemptions[rid].voucher].customer = c
    /\ redemptions[rid].redemption_status = PENDING

(* ---------------- cancellation ---------------- *)
CancelFetch(p, c, rid) ==
    /\ procs[p].pc = "idle"
    /\ IF InQueryset(c, rid)
       THEN Start(p, "cancel_save", c, redemptions[rid].voucher, rid, 0)
       ELSE Finish(p, "NotFound")
    /\ UNCHANGED <<wallet, vouchers, redemptions, finance, now>>

\* the voucher row as VoucherRedemptionCancelView.update leaves it
ReleasedVoucher(v, amount) == v

\* instance.redemption_status = CANCELLED; instance.save(update_fields=[...])
CancelSave(p) ==
    /\ procs[p].pc = "cancel_save"
    /\ redemptions' = [redemptions EXCEPT ![procs[p].rid].redemption_status = CANCELLED]
    /\ vouchers' = [vouchers EXCEPT
                      ![procs[p].vid] =
                          ReleasedVoucher(@, redemptions[procs[p].rid].redeemed_amount)]
    /\ Finish(p, "ok")
    /\ UNCHANGED <<wallet, finance, now>>

(* ---------------- confirmation ---------------- *)
ConfirmFetch(p, c, rid) ==
    /\ procs[p].pc = "idle"
    /\ IF InQueryset(c, rid)
       THEN /\ Start(p, "confirm_validate", c, redemptions[rid].voucher, rid,
                     redemptions[rid].redeemed_amount)
       ELSE Finish(p, "NotFound")
    /\ UNCHANGED <<wallet, vouchers, redemptions, finance, now>>

\* ValidateOutcome without its expiry check
ValidateOutcomeNoExpiryCheck(v, t) ==
    IF v.status # ACTIVE THEN "VoucherNotActive"
    ELSE "ok"

\* VoucherRedemptionConfirmSerializer.validate: self.instance is the row fetched
\* by get_object (PENDING by the queryset), its voucher is read now
ValidateOutcome(v, t) ==
    IF v.status # ACTIVE THEN "VoucherNotActive"
    ELSE IF IsExpired(v, t) THEN "VoucherExpired"
    ELSE "ok"

ConfirmValidate(p) ==
    /\ procs[p].pc = "confirm_validate"
    /\ IF ValidateOutcome(vouchers[procs[p].vid], now) = "ok"
       THEN /\ procs' = [procs EXCEPT ![p].pc = "confirm_update"]
       ELSE Finish(p, ValidateOutcome(vouchers[procs[p].vid], now))
    /\ UNCHANGED <<wallet, vouchers, redemptions, finance, now>>

\* hasattr(vendor, "finance"): every vendor profile is created with its finance row
HasFinance(vendor) == vendor \in DOMAIN finance

\* UpdateOutcome without its escrow check
UpdateOutcomeNoEscrowCheck(r, v, amount) ==
    IF ~HasFinance(r.vendor) THEN "NotFound"
    ELSE IF r.redemption_status = REDEEMED THEN "AlreadyTerminal"
    ELSE IF amount > v.remaining_balance THEN "InsufficientFunds"
    ELSE "ok"

\* the checks VoucherRedemptionConfirmSerializer.update makes on the locked rows
UpdateOutcome(r, v, amount) ==
    IF ~HasFinance(r.vendor) THEN "NotFound"
    ELSE IF r.redemption_status = REDEEMED THEN "AlreadyTerminal"
    ELSE IF amount > v.escrow_balance THEN "InsufficientEscrow"
    ELSE IF amount > v.remaining_balance THEN "InsufficientFunds"
    ELSE "ok"

\* the voucher row VoucherRedemptionConfirmSerializer.update saves
SettledVoucher(v, amount) ==
    IF v.remaining_balance - amount <= 0
    THEN [v EXCEPT !.escrow_balance = @ - amount,
                   !.remaining_balance = 0,
                   !.status = LOCKED]
    ELSE [v EXCEPT !.escrow_balance = @ - amount,
                   !.remaining_balance = @ - amount]

\* the redemption rows after update: the confirmed one REDEEMED and, when the
\* voucher locks, every other PENDING row of the voucher CANCELLED
SettledRedemptions(rid, locks) ==
    [i \in RedemptionRows |->
        IF i = rid
        THEN [redemptions[i] EXCEPT !.redemption_status = REDEEMED]
        ELSE IF /\ locks
                /\ redemptions[i].voucher = redemptions[rid].voucher
                /\ redemptions[i].redemption_status = PENDING
        THEN [redemptions[i] EXCEPT !.redemption_status = CANCELLED]
        ELSE redemptions[i]]

\* ConfirmUpdate with the request saved as REDEEMED ahead of the checks and
\* outside the transaction, so that a refusal leaves it written
ConfirmUpdateNoRollback(p) ==
    /\ procs[p].pc = "confirm_update"
    /\ LET rid == procs[p].rid
           amount == procs[p].amount
           r == redemptions[rid]
           v == vouchers[r.voucher]
           out == UpdateOutcome(r, v, amount)
       IN  IF out = "ok"
           THEN /\ redemptions' =
                      SettledRedemptions(rid, SettledVoucher(v, amount).status = LOCKED)
                /\ vouchers' = [vouchers EXCEPT ![r.voucher] = SettledVoucher(v, amount)]
                /\ finance' = [finance EXCEPT ![r.vendor] = @ + amount]
                /\ Finish(p, "ok")
           ELSE /\ Finish(p, out)
                /\ redemptions' = [redemptions EXCEPT ![rid].redemption_status = REDEEMED]
                /\ UNCHANGED <<vouchers, finance>>
    /\ UNCHANGED <<wallet, now>>

\* the transaction.atomic() block of VoucherRedemptionConfirmSerializer.update:
\* the rows are re-read under select_for_update, so the block is one step
ConfirmUpdate(p) ==
    /\ procs[p].pc = "confirm_update"
    /\ LET rid == procs[p].rid
           amount == procs[p].amount
           r == redemptions[rid]
           v == vouchers[r.voucher]
           out == UpdateOutcome(r, v, amount)
       IN  IF out = "ok"
           THEN /\ redemptions' =
                      SettledRedemptions(rid, SettledVoucher(v, amount).status = LOCKED)
                /\ vouchers' = [vouchers EXCEPT ![r.voucher] = SettledVoucher(v, amount)]
                /\ finance' = [finance EXCEPT ![r.vendor] = @ + amount]
                /\ Finish(p, "ok")
           ELSE /\ Finish(p, out)
                /\ UNCHANGED <<vouchers, redemptions, finance>>
    /\ UNCHANGED <<wallet, now>>

Next ==
    \/ Tick
    \/ \E c \in Depositors, a \in DepositAmounts : Deposit(c, a)
    \/ \E c \in Customers, cat \in VoucherCategories, a \in VoucherAmounts :
          VoucherCreate(c, cat, a)
    \/ \E p \in Procs, c \in Customers, vid \in VoucherCodes : ActivateFetch(p, c, vid)
    \/ \E p \in Procs : ActivateSave(p)
    \/ \E p \in Procs, vendor \in Vendors, code \in VoucherCodes, a \in RedeemAmounts :
          RequestValidate(p, vendor, code, a)
    \/ \E p \in Procs : RequestCreate(p)
    \/ \E p \in Procs, c \in Customers, rid \in RedemptionIds : CancelFetch(p, c, rid)
    \/ \E p \in Procs : CancelSave(p)
    \/ \E p \in Procs, c \in Customers, rid \in RedemptionIds : ConfirmFetch(p, c, rid)
    \/ \E p \in Procs : ConfirmValidate(p)
    \/ \E p \in Procs : ConfirmUpdate(p)

Spec == Init /\ [][Next]_vars

(***************************************************************************)
(* Vendor finance: top-up and payout                                       *)
(***************************************************************************)
\* the vendors whose users send top-ups and payouts
FinanceVendors == {"v1"}

TopUpAmounts == {0, 50}

PayoutAmounts == {25, 50}

\* VendorTopUpView.post: the amount check
TopUpOutcome(a) == IF a <= 0 THEN "InvalidAmount" ELSE "ok"

\* VendorTopUpView.post: vendor_profile.finance is loaded and balance += amount
\* is computed on the loaded row; procs[p].amount holds the balance to save
TopUpRead(p, vendor, a) ==
    /\ procs[p].pc = "idle"
    /\ finance[vendor] + a <= MaxFinance
    /\ IF TopUpOutcome(a) = "ok"
       THEN Start(p, "topup_save", vendor, 0, 0, finance[vendor] + a)
       ELSE Finish(p, TopUpOutcome(a))
    /\ UNCHANGED <<wallet, vouchers, redemptions, finance, now>>

\* vendor_profile.finance.save()
TopUpSave(p) ==
    /\ procs[p].pc = "topup_save"
    /\ finance' = [finance EXCEPT ![procs[p].user] = procs[p].amount]
    /\ Finish(p, "ok")
    /\ UNCHANGED <<wallet, vouchers, redemptions, now>>

\* PayoutOutcome without its balance check
PayoutOutcomeNoBalanceCheck(vendor, a) ==
    IF a < MinPayoutAmount THEN "AmountTooLow"
    ELSE IF ~HasFinance(vendor) THEN "NoFinance"
    ELSE "ok"

\* VendorPayoutSerializer.validate_amount, on the finance row it loads
PayoutOutcome(vendor, a) ==
    IF a < MinPayoutAmount THEN "AmountTooLow"
    ELSE IF ~HasFinance(vendor) THEN "NoFinance"
    ELSE IF a > finance[vendor] THEN "ExceedsBalance"
    ELSE "ok"

\* vendor.finance.balance -= amount
PaidOut(balance, a) == balance - a

\* VendorPayoutView.post up to the save: the finance row loaded by the
\* validation is the one the view subtracts from
PayoutValidate(p, vendor, a) ==
    /\ procs[p].pc = "idle"
    /\ IF PayoutOutcome(vendor, a) = "ok"
       THEN Start(p, "payout_save", vendor, 0, 0, PaidOut(finance[vendor], a))
       ELSE Finish(p, PayoutOutcome(vendor, a))
    /\ UNCHANGED <<wallet, vouchers, redemptions, finance, now>>

\* vendor.finance.save()
PayoutSave(p) ==
    /\ procs[p].pc = "payout_save"
    /\ finance' = [finance EXCEPT ![procs[p].user] = procs[p].amount]
    /\ Finish(p, "ok")
    /\ UNCHANGED <<wallet, vouchers, redemptions, now>>

\* every operation on the ledger, the vendor's own included; the vouchers are
\* those of the depositing customers and the requests those of FinanceVendors
NextVendor ==
    \/ Tick
    \/ \E c \in Depositors, a \in DepositAmounts : Deposit(c, a)
    \/ \E c \in Depositors, cat \in VoucherCategories, a \in VoucherAmounts :
          VoucherCreate(c, cat, a)
    \/ \E p \in Procs, c \in Depositors, vid \in VoucherCodes : ActivateFetch(p, c, vid)
    \/ \E p \in Procs : ActivateSave(p)
    \/ \E p \in Procs, vendor \in FinanceVendors, code \in VoucherCodes :
          RequestValidate(p, vendor, code, MinRedemptionAmount)
    \/ \E p \in Procs : RequestCreate(p)
    \/ \E p \in Procs, c \in Depositors, rid \in RedemptionIds : CancelFetch(p, c, rid)
    \/ \E p \in Procs : CancelSave(p)
    \/ \E p \in Procs, c \in Depositors, rid \in RedemptionIds : ConfirmFetch(p, c, rid)
    \/ \E p \in Procs : ConfirmValidate(p)
    \/ \E p \in Procs : ConfirmUpdate(p)
    \/ \E p \in Procs, vendor \in FinanceVendors, a \in TopUpAmounts : TopUpRead(p, vendor, a)
    \/ \E p \in Procs : TopUpSave(p)
    \/ \E p \in Procs, vendor \in FinanceVendors, a \in PayoutAmounts :
          PayoutValidate(p, vendor, a)
    \/ \E p \in Procs : PayoutSave(p)

VendorSpec == Init /\ [][NextVendor]_vars

(***************************************************************************)
(* Row locks of the confirmation transaction                               *)
(***************************************************************************)
\* select_for_update().select_related("voucher", "vendor__finance") locks the
\* redemption row, then its voucher row, then the vendor's finance row; a
\* handler holds them until its transaction ends
LockPcs == {"confirm_lock_voucher", "confirm_lock_finance", "confirm_locked"}

HoldsRedemption(p, rid) == procs[p].pc \in LockPcs /\ procs[p].rid = rid

HoldsVoucher(p, vid) ==
    procs[p].pc \in {"confirm_lock_finance", "confirm_locked"} /\ procs[p].vid = vid

HoldsFinance(p, vendor) ==
    procs[p].pc = "confirm_locked" /\ redemptions[procs[p].rid].vendor = vendor

RedemptionFree(rid) == \A q \in Procs : ~HoldsRedemption(q, rid)

VoucherFree(vid) == \A q \in Procs : ~HoldsVoucher(q, vid)

FinanceFree(vendor) == \A q \in Procs : ~HoldsFinance(q, vendor)

LockRedemption(p) ==
    /\ procs[p].pc = "confirm_update"
    /\ RedemptionFree(procs[p].rid)
    /\ procs' = [procs EXCEPT ![p].pc = "confirm_lock_voucher"]
    /\ UNCHANGED <<wallet, vouchers, redemptions, finance, now>>

LockVoucher(p) ==
    /\ procs[p].pc = "confirm_lock_voucher"
    /\ VoucherFree(procs[p].vid)
    /\ procs' = [procs EXCEPT ![p].pc = "confirm_lock_finance"]
    /\ UNCHANGED <<wallet, vouchers, redemptions, finance, now>>

LockFinance(p) ==
    /\ procs[p].pc = "confirm_lock_finance"
    /\ FinanceFree(redemptions[procs[p].rid].vendor)
    /\ procs' = [procs EXCEPT ![p].pc = "confirm_locked"]
    /\ UNCHANGED <<wallet, vouchers, redemptions, finance, now>>

\* the PENDING siblings the cascade of update() rewrites are rows no other
\* transaction holds
SiblingsFree(p) ==
    \A i \in RedemptionRows :
        (redemptions[i].voucher = procs[p].vid /\ redemptions[i].redemption_status = PENDING)
           => \A q \in Procs \ {p} : ~HoldsRedemption(q, i)

\* the body of update() on the locked rows, up to the end of the transaction
ConfirmCommit(p) ==
    /\ procs[p].pc = "confirm_locked"
    /\ LET rid == procs[p].rid
           amount == procs[p].amount
           r == redemptions[rid]
           v == vouchers[r.voucher]
           out == UpdateOutcome(r, v, amount)
       IN  IF out = "ok"
           THEN /\ SettledVoucher(v, amount).status = LOCKED => SiblingsFree(p)
                /\ redemptions' =
                      SettledRedemptions(rid, SettledVoucher(v, amount).status = LOCKED)
                /\ vouchers' = [vouchers EXCEPT ![r.voucher] = SettledVoucher(v, amount)]
                /\ finance' = [finance EXCEPT ![r.vendor] = @ + amount]
                /\ Finish(p, "ok")
           ELSE /\ Finish(p, out)
                /\ UNCHANGED <<vouchers, redemptions, finance>>
    /\ UNCHANGED <<wallet, now>>

\* the operations on vouchers and redemptions with the confirmation taking its
\* locks one by one; a save of a locked row waits for the lock
NextLock ==
    \/ \E c \in Depositors, a \in DepositAmounts : Deposit(c, a)
    \/ \E c \in Depositors, cat \in VoucherCategories, a \in VoucherAmounts :
          VoucherCreate(c, cat, a)
    \/ \E p \in Procs, c \in Depositors, vid \in VoucherCodes : ActivateFetch(p, c, vid)
    \/ \E p \in Procs : VoucherFree(procs[p].vid) /\ ActivateSave(p)
    \/ \E p \in Procs, vendor \in FinanceVendors, code \in VoucherCodes :
          RequestValidate(p, vendor, code, MinVoucherAmount)
    \/ \E p \in Procs : RequestCreate(p)
    \/ \E p \in Procs, c \in Depositors, rid \in RedemptionIds : CancelFetch(p, c, rid)
    \/ \E p \in Procs : RedemptionFree(procs[p].rid) /\ CancelSave(p)
    \/ \E p \in Procs, c \in Depositors, rid \in RedemptionIds : ConfirmFetch(p, c, rid)
    \/ \E p \in Procs : ConfirmValidate(p)
    \/ \E p \in Procs : LockRedemption(p)
    \/ \E p \in Procs : LockVoucher(p)
    \/ \E p \in Procs : LockFinance(p)
    \/ \E p \in Procs : ConfirmCommit(p)

\* a free lock is granted to a waiting transaction, and a transaction that
\* holds its locks runs to its end
LockFairness ==
    \A p \in Procs :
        /\ SF_vars(LockRedemption(p))
        /\ SF_vars(LockVoucher(p))
        /\ SF_vars(LockFinance(p))
        /\ WF_vars(ConfirmCommit(p))

LockSpec == Init /\ [][NextLock]_vars /\ LockFairness

(***************************************************************************)
(* Properties                                                              *)
(***************************************************************************)
Terminal(st) == st \in {REDEEMED, CANCELLED}

\* the redemption rows of voucher vid that are in status st
RowsOf(vid, st) ==
    {i \in RedemptionRows : redemptions[i].voucher = vid
                            /\ redemptions[i].redemption_status = st}

RECURSIVE SumAmounts(_)
SumAmounts(rows) ==
    IF rows = {} THEN 0
    ELSE LET i == CHOOSE x \in rows : TRUE
         IN  redemptions[i].redeemed_amount + SumAmounts(rows \ {i})

\* what the outstanding PENDING requests of voucher vid claim of its balance
Outstanding(vid) == SumAmounts(RowsOf(vid, PENDING))

\* handler p takes the step that inserts its redemption row
CreateStep(p) == procs[p].pc = "request_create" /\ procs'[p].pc = "idle"

\* handler p accepts a request: validate passes and the insert is next
AcceptStep(p) == procs[p].pc = "idle" /\ procs'[p].pc = "request_create"

\* handler p runs the transaction of a confirmation
UpdateStep(p) == procs[p].pc = "confirm_update" /\ procs'[p].pc = "idle"

\* the confirmation of p is one the customer may make: the request is PENDING,
\* its voucher ACTIVE and unexpired and the amount within the voucher's balance
Confirmable(p) ==
    LET r == redemptions[procs[p].rid]
        v == vouchers[r.voucher]
    IN  /\ r.redemption_status = PENDING
        /\ v.status = ACTIVE
        /\ ~IsExpired(v, now)
        /\ r.redeemed_amount <= v.remaining_balance

\* C1: in every reachable state every voucher satisfies
\* 0 <= escrow_balance <= remaining_balance <= initial_amount
C1_BalanceOrder ==
    \A vid \in VoucherIds :
        /\ 0 <= vouchers[vid].escrow_balance
        /\ vouchers[vid].escrow_balance <= vouchers[vid].remaining_balance
        /\ vouchers[vid].remaining_balance <= vouchers[vid].initial_amount

\* a voucher with a cancelled request, a pending request and a confirmation of
\* the pending one inside its transaction
C1_Witness ==
    \E p \in Procs, i \in RedemptionRows :
        /\ procs[p].pc = "confirm_update"
        /\ redemptions[procs[p].rid].redemption_status = PENDING
        /\ redemptions[i].voucher = procs[p].vid
        /\ redemptions[i].redemption_status = CANCELLED
        /\ vouchers[procs[p].vid].status = ACTIVE

\* C2: when two vendors request a voucher's whole uncommitted remainder, only
\* one of the two requests is accepted as PENDING: no voucher ever carries two
\* PENDING requests each for its whole remaining balance
C2_OneReservationWins ==
    \A i, j \in RedemptionRows :
        (/\ i # j
         /\ redemptions[i].voucher = redemptions[j].voucher
         /\ redemptions[i].vendor # redemptions[j].vendor
         /\ redemptions[i].redemption_status = PENDING
         /\ redemptions[j].redemption_status = PENDING)
        => ~(/\ redemptions[i].redeemed_amount
                  = vouchers[redemptions[i].voucher].remaining_balance
             /\ redemptions[j].redeemed_amount
                  = vouchers[redemptions[j].voucher].remaining_balance)

\* C3: the confirmation of a PENDING request of amount A by its owner decreases
\* the voucher's escrow_balance and remaining_balance by A, credits the vendor's
\* finance balance with A and sets the request to REDEEMED, in one step
C3_ConfirmSettles ==
    [][\A p \in Procs :
          (UpdateStep(p) /\ Confirmable(p)) =>
              LET rid == procs[p].rid
                  r == redemptions[rid]
                  a == r.redeemed_amount
              IN  /\ redemptions'[rid].redemption_status = REDEEMED
                  /\ vouchers'[r.voucher].escrow_balance
                        = vouchers[r.voucher].escrow_balance - a
                  /\ vouchers'[r.voucher].remaining_balance
                        = vouchers[r.voucher].remaining_balance - a
                  /\ finance'[r.vendor] = finance[r.vendor] + a]_vars

\* C4: an accepted redemption request of amount A inserts one PENDING row,
\* raises the voucher's escrow_balance by exactly A and leaves its
\* remaining_balance unchanged
C4_RequestReserves ==
    [][\A p \in Procs :
          CreateStep(p) =>
              LET vid == procs[p].vid
                  n == Len(redemptions')
              IN  /\ n = Len(redemptions) + 1
                  /\ redemptions'[n].redemption_status = PENDING
                  /\ redemptions'[n].redeemed_amount = procs[p].amount
                  /\ vouchers'[vid].escrow_balance
                        = vouchers[vid].escrow_balance + procs[p].amount
                  /\ vouchers'[vid].remaining_balance
                        = vouchers[vid].remaining_balance]_vars

\* C5: a request whose amount exceeds the voucher's uncommitted remainder, the
\* remaining balance less what outstanding PENDING requests already claim of
\* it, is never accepted
C5_UncommittedRemainderChecked ==
    [][\A p \in Procs :
          AcceptStep(p) =>
              procs'[p].amount
                 <= vouchers[procs'[p].vid].remaining_balance
                       - Outstanding(procs'[p].vid)]_vars

\* C6: a confirmation for the whole remaining balance of the voucher sets the
\* voucher to LOCKED and, in the same step, every other PENDING request of the
\* voucher to CANCELLED
C6_ZeroBalanceLocksAndCascades ==
    [][\A p \in Procs :
          (/\ UpdateStep(p)
           /\ Confirmable(p)
           /\ procs[p].amount = vouchers[procs[p].vid].remaining_balance) =>
              /\ vouchers'[procs[p].vid].status = LOCKED
              /\ \A i \in RowsOf(procs[p].vid, PENDING) \ {procs[p].rid} :
                    redemptions'[i].redemption_status = CANCELLED]_vars

\* C7: when a confirmation for the whole remaining balance finds sibling
\* PENDING requests on the voucher, the step leaves the voucher LOCKED with
\* escrow_balance 0: the siblings' escrow is released with the cascade
C7_CascadeReleasesEscrow ==
    [][\A p \in Procs :
          (/\ UpdateStep(p)
           /\ Confirmable(p)
           /\ procs[p].amount = vouchers[procs[p].vid].remaining_balance
           /\ RowsOf(procs[p].vid, PENDING) \ {procs[p].rid} # {}) =>
              /\ vouchers'[procs[p].vid].status = LOCKED
              /\ vouchers'[procs[p].vid].escrow_balance = 0
              /\ RowsOf(procs[p].vid, PENDING)' = {}]_vars

C9_TerminalConfirmIsConflict ==
    \A p \in Procs :
        (/\ procs[p].pc = "confirm_update"
         /\ Terminal(redemptions[procs[p].rid].redemption_status)) =>
            UpdateOutcome(redemptions[procs[p].rid], vouchers[procs[p].vid],
                          procs[p].amount) = "AlreadyTerminal"

\* C10: of two concurrent confirmations of distinct PENDING requests on one
\* voucher, each commits against the balances the other left: its step lowers
\* remaining_balance and escrow_balance by its own amount, and never below 0
C10_ConcurrentConfirmsCompose ==
    [][\A p, q \in Procs :
          (/\ p # q
           /\ UpdateStep(p)
           /\ Confirmable(p)
           /\ procs[q].pc \in {"confirm_validate", "confirm_update"}
           /\ procs[q].vid = procs[p].vid
           /\ procs[q].rid # procs[p].rid) =>
              LET vid == procs[p].vid
              IN  /\ vouchers'[vid].remaining_balance
                        = vouchers[vid].remaining_balance - procs[p].amount
                  /\ vouchers'[vid].escrow_balance
                        = vouchers[vid].escrow_balance - procs[p].amount
                  /\ vouchers'[vid].remaining_balance >= 0]_vars

\* room is left for one more row, so that a creation or a request is taken up
HasRoom == Len(vouchers) + Len(redemptions) + CreatesInFlight < MaxRows

\* C11: in every reachable state every wallet balance is at least 0, also
\* when further voucher creations arrive against a balance that covered one
C11_WalletNeverNegative == \A c \in Customers : wallet[c] >= 0

\* a creation has taken the whole balance and a further creation can arrive
C11_Witness ==
    /\ Len(vouchers) = 1
    /\ wallet[vouchers[1].customer] = 0
    /\ HasRoom

\* C12: a step adds a voucher exactly when it debits a wallet; it adds one
\* voucher of the debited customer whose initial_amount and remaining_balance
\* equal the debit, with escrow_balance 0 and status PENDING_PAYMENT
C12_CreateIsAtomic ==
    [][(Len(vouchers') # Len(vouchers)
          \/ \E c \in Customers : wallet'[c] < wallet[c])
       => \E c \in Customers :
            LET nv == vouchers'[Len(vouchers')]
            IN  /\ vouchers' = Append(vouchers, nv)
                /\ nv.customer = c
                /\ nv.initial_amount > 0
                /\ wallet' = [wallet EXCEPT ![c] = @ - nv.initial_amount]
                /\ nv.remaining_balance = nv.initial_amount
                /\ nv.escrow_balance = 0
                /\ nv.status = PENDING_PAYMENT]_vars

\* a voucher as its creation left it, paid with the whole wallet balance
C12_Witness ==
    \E vid \in VoucherIds :
        /\ vouchers[vid].status = PENDING_PAYMENT
        /\ vouchers[vid].remaining_balance = MaxWallet
        /\ wallet[vouchers[vid].customer] = 0

\* C13: a creation for an amount above the wallet balance answers
\* InsufficientFunds, and no step adds a voucher for more than its customer's
\* wallet held or changes a wallet without adding a voucher or a deposit
C13_InsufficientFundsRefused ==
    [][/\ \A c \in Customers, a \in VoucherAmounts :
              (a >= MinVoucherAmount /\ wallet[c] < a)
                 => CreateOutcome(c, a) = "InsufficientFunds"
       /\ Len(vouchers') > Len(vouchers)
              => LET nv == vouchers'[Len(vouchers')]
                 IN  wallet[nv.customer] >= nv.initial_amount
       /\ \A c \in Customers, cat \in VoucherCategories, a \in VoucherAmounts :
              (VoucherCreate(c, cat, a) /\ wallet[c] < a)
                 => UNCHANGED <<wallet, vouchers>>]_vars

\* two creations have emptied the wallet twice and a third can arrive
C13_Witness ==
    /\ Len(vouchers) = 2
    /\ \A vid \in VoucherIds : wallet[vouchers[vid].customer] < MinVoucherAmount
    /\ HasRoom

\* the edges of the voucher state machine
AllowedStatusStep(from, to) ==
    <<from, to>> \in {<<PENDING_PAYMENT, ACTIVE>>, <<ACTIVE, LOCKED>>,
                      <<PENDING_PAYMENT, EXPIRED>>, <<ACTIVE, EXPIRED>>}

ValidateStep(p) == procs[p].pc = "confirm_validate" /\ procs'[p].pc # "confirm_validate"

\* the confirmation handler p validates is for a PENDING request on a voucher
\* past its expiry_date
ConfirmsExpired(p) ==
    /\ procs[p].pc = "confirm_validate"
    /\ redemptions[procs[p].rid].redemption_status = PENDING
    /\ IsExpired(vouchers[procs[p].vid], now)

\* C16: a confirmation of a PENDING request whose voucher is past its
\* expiry_date is answered with the expired error and ends there: vouchers,
\* vendor finance, wallets and redemption rows are unchanged
C16_ExpiredConfirmRefused ==
    [][\A p \in Procs :
          (ValidateStep(p) /\ ConfirmsExpired(p))
             => /\ ValidateOutcome(vouchers[procs[p].vid], now) = "VoucherExpired"
                /\ procs'[p] = Idle
                /\ UNCHANGED <<vouchers, finance, wallet, redemptions>>]_vars

\* a confirmation of a PENDING request stands at validate with the voucher
\* expired
C16_Witness == \E p \in Procs : ConfirmsExpired(p)

\* handler p passes the checks of an activation; its save is next
ActivateAcceptStep(p) == procs[p].pc = "idle" /\ procs'[p].pc = "activate_save"

\* handler p writes the activation
ActivateSaveStep(p) == procs[p].pc = "activate_save" /\ procs'[p].pc = "idle"

\* C17: an activation passes its checks exactly when the caller owns the
\* voucher and reads it as PENDING_PAYMENT; its write sets that voucher ACTIVE
\* and changes nothing else; no other step makes a voucher ACTIVE
C17_ActivationGuarded ==
    [][/\ \A c \in Customers, vid \in VoucherCodes :
              (ActivateOutcome(c, vid) = "ok")
                 <=> (/\ vid \in VoucherIds
                      /\ vouchers[vid].customer = c
                      /\ vouchers[vid].status = PENDING_PAYMENT)
       /\ \A p \in Procs :
              /\ ActivateAcceptStep(p)
                    => /\ procs'[p].vid \in VoucherIds
                       /\ vouchers[procs'[p].vid].customer = procs'[p].user
                       /\ vouchers[procs'[p].vid].status = PENDING_PAYMENT
                       /\ UNCHANGED <<vouchers, wallet, finance, redemptions>>
              /\ ActivateSaveStep(p)
                    => /\ vouchers[procs[p].vid].customer = procs[p].user
                       /\ vouchers' = [vouchers EXCEPT ![procs[p].vid].status = ACTIVE]
                       /\ UNCHANGED <<wallet, finance, redemptions>>
       /\ \A vid \in VoucherIds :
              (vouchers'[vid].status = ACTIVE /\ vouchers[vid].status # ACTIVE)
                 => /\ vouchers[vid].status = PENDING_PAYMENT
                    /\ \E p \in Procs : ActivateSaveStep(p) /\ procs[p].vid = vid]_vars

\* the owner has activated one voucher and holds another still unpaid, which
\* a stranger may try to activate
C17_Witness ==
    \E v1 \in VoucherIds, v2 \in VoucherIds :
        /\ vouchers[v1].status = ACTIVE
        /\ vouchers[v2].status = PENDING_PAYMENT
        /\ \E p \in Procs : procs[p].pc = "idle"

\* handler p writes the cancellation of a request that is PENDING
CancelStep(p) ==
    /\ procs[p].pc = "cancel_save"
    /\ procs'[p].pc = "idle"
    /\ redemptions[procs[p].rid].redemption_status = PENDING

\* C19: the cancellation of a PENDING request of amount A sets it CANCELLED
\* and lowers its voucher's escrow_balance by exactly A; remaining_balance,
\* voucher status, wallets and vendor finance are unchanged
C19_CancelReleasesEscrow ==
    [][\A p \in Procs :
          CancelStep(p)
             => LET rid == procs[p].rid
                    vid == redemptions[rid].voucher
                IN  /\ redemptions'[rid].redemption_status = CANCELLED
                    /\ vouchers'[vid].escrow_balance =
                          vouchers[vid].escrow_balance - redemptions[rid].redeemed_amount
                    /\ vouchers'[vid].remaining_balance = vouchers[vid].remaining_balance
                    /\ vouchers'[vid].status = vouchers[vid].status
                    /\ UNCHANGED <<wallet, finance>>]_vars

\* the request handler p accepted is one the rules allow
RequestAllowed(vendor, code, amount) ==
    /\ code \in VoucherIds
    /\ vouchers[code].status = ACTIVE
    /\ ~IsExpired(vouchers[code], now)
    /\ vouchers[code].category = VendorCategory(vendor)
    /\ amount >= MinRedemptionAmount

\* C20: a request passes validation only for a known code of an ACTIVE,
\* unexpired voucher of the vendor's category and an amount of at least 50;
\* accepting changes no row, and a redemption row is added only by a handler
\* whose request was accepted
C20_BadRequestRefused ==
    [][/\ \A p \in Procs :
              AcceptStep(p)
                 => /\ RequestAllowed(procs'[p].user, procs'[p].vid, procs'[p].amount)
                    /\ UNCHANGED <<vouchers, redemptions, wallet, finance>>
       /\ Len(redemptions') # Len(redemptions)
              => \E p \in Procs : CreateStep(p)]_vars

\* an ACTIVE voucher is past its expiry_date while a handler is free and a row
\* can be added: a request against it is taken up and refused
C20_Witness ==
    \E vid \in VoucherIds, p \in Procs :
        /\ vouchers[vid].status = ACTIVE
        /\ IsExpired(vouchers[vid], now)
        /\ procs[p].pc = "idle"
        /\ HasRoom

\* handler p writes the balance of a top-up
TopUpStep(p) == procs[p].pc = "topup_save" /\ procs'[p].pc = "idle"

\* C18: every step that raises a vendor's finance balance is the confirmation
\* of a redemption request of that vendor
C18_OnlyConfirmationCredits ==
    [][\A v \in Vendors :
          finance'[v] > finance[v]
             => \E p \in Procs : /\ UpdateStep(p)
                                 /\ redemptions[procs[p].rid].vendor = v]_vars

\* update() refuses the confirmation handler p is about to run
Refused(p) ==
    LET r == redemptions[procs[p].rid]
    IN  UpdateOutcome(r, vouchers[r.voucher], procs[p].amount) # "ok"

\* C21: a confirmation that update() refuses on one of its checks under the
\* lock leaves redemption rows, vouchers, vendor finance and wallets as they were
C21_RefusedConfirmChangesNothing ==
    [][\A p \in Procs :
          (UpdateStep(p) /\ Refused(p))
             => UNCHANGED <<redemptions, vouchers, finance, wallet>>]_vars

\* a confirmation stands before update() and will be refused; its request was
\* cancelled after the lookup and is no longer PENDING
C21_Witness ==
    \E p \in Procs :
        /\ procs[p].pc = "confirm_update"
        /\ Refused(p)
        /\ redemptions[procs[p].rid].redemption_status = CANCELLED

\* C23: a confirmation that evaluates a PENDING_PAYMENT or ACTIVE voucher past
\* its expiry_date leaves that voucher EXPIRED
C23_ExpiryCheckExpires ==
    [][\A p \in Procs :
          (/\ ValidateStep(p)
           /\ IsExpired(vouchers[procs[p].vid], now)
           /\ vouchers[procs[p].vid].status \in {PENDING_PAYMENT, ACTIVE})
             => vouchers'[procs[p].vid].status = EXPIRED]_vars

\* the vouchers of customer c
VouchersOf(c) == {vid \in VoucherIds : vouchers[vid].customer = c}

RECURSIVE SumInitial(_)
SumInitial(vids) ==
    IF vids = {} THEN 0
    ELSE LET i == CHOOSE x \in vids : TRUE
         IN  vouchers[i].initial_amount + SumInitial(vids \ {i})

\* what customer c holds in the wallet and has put into vouchers
Funded(c) == wallet[c] + SumInitial(VouchersOf(c))

\* C24: a wallet's balance plus the initial_amount of its owner's vouchers
\* changes only by the amount of a committed deposit, in a step that adds no
\* voucher: the balance is the deposits minus one debit per voucher
C24_WalletConserved ==
    [][\A c \in Customers :
          LET d == Funded(c)' - Funded(c)
          IN  \/ d = 0
              \/ /\ d > 0
                 /\ d \in DepositAmounts
                 /\ wallet'[c] = wallet[c] + d
                 /\ UNCHANGED vouchers]_vars

\* a customer has deposited twice and paid one voucher
C24_Witness ==
    \E c \in Customers :
        /\ wallet[c] = MaxWallet
        /\ SumInitial(VouchersOf(c)) = MinVoucherAmount

C26_EscrowIsOutstanding ==
    \A vid \in VoucherIds : vouchers[vid].escrow_balance = Outstanding(vid)

\* C27: in every reachable state each voucher's initial_amount is its
\* remaining_balance plus the redeemed_amount of its REDEEMED requests
C27_ValueConserved ==
    \A vid \in VoucherIds :
        vouchers[vid].initial_amount =
            vouchers[vid].remaining_balance + SumAmounts(RowsOf(vid, REDEEMED))

\* a voucher with a cancelled and an outstanding request, a confirmation of
\* the latter about to run
C27_Witness ==
    \E vid \in VoucherIds, p \in Procs :
        /\ RowsOf(vid, CANCELLED) # {}
        /\ procs[p].pc = "confirm_update"
        /\ procs[p].vid = vid
        /\ redemptions[procs[p].rid].redemption_status = PENDING

\* handler p writes the balance of a payout
PayoutStep(p) == procs[p].pc = "payout_save" /\ procs'[p].pc = "idle"

\* C28: the save of a top-up raises the vendor's finance balance by a top-up
\* amount, the save of a payout lowers it by a payout amount, and any other
\* change of it is the credit of a request of that vendor becoming REDEEMED
C28_NoFinanceUpdateLost ==
    [][\A v \in Vendors :
          LET d == finance'[v] - finance[v]
          IN  /\ \A p \in Procs :
                    (TopUpStep(p) /\ procs[p].user = v) => (d > 0 /\ d \in TopUpAmounts)
              /\ \A p \in Procs :
                    (PayoutStep(p) /\ procs[p].user = v)
                       => (-d >= MinPayoutAmount /\ -d \in PayoutAmounts)
              /\ d # 0
                    => \E p \in Procs :
                          \/ (TopUpStep(p) \/ PayoutStep(p)) /\ procs[p].user = v
                          \/ /\ UpdateStep(p)
                             /\ redemptions[procs[p].rid].vendor = v
                             /\ redemptions[procs[p].rid].redemption_status = PENDING
                             /\ redemptions'[procs[p].rid].redemption_status = REDEEMED
                             /\ d = redemptions[procs[p].rid].redeemed_amount]_vars

\* C29: in every reachable state every vendor finance balance is at least 0
C29_FinanceNeverNegative == \A v \in Vendors : finance[v] >= 0

\* two payouts of one vendor have each passed the balance check against the
\* same balance, which covers only one of them, and both are about to save
C29_Witness ==
    \E p \in Procs, q \in Procs :
        /\ p # q
        /\ procs[p].pc = "payout_save"
        /\ procs[q].pc = "payout_save"
        /\ procs[p].user = procs[q].user
        /\ finance[procs[p].user] = MinPayoutAmount
        /\ procs[p].amount = 0
        /\ procs[q].amount = 0

====
